---------------------------- MODULE Spec2Model ----------------------------
(***************************************************************************)
(* Model of the bank HTTP service: two ledger counters (money, bank)       *)
(* guarded by one mutex, the pay and save handlers, and the request-id and *)
(* logging middleware that main() wraps around them.                       *)
(*                                                                         *)
(* Strings are sequences of one-character strings, so that parsing and     *)
(* rendering are computed rather than assumed.  The counters are Go int64  *)
(* values; an int64 is kept as three limbs, value = hi*2^42 + mid*2^21 +   *)
(* lo with hi signed (22 bits) and mid, lo unsigned (21 bits each), so     *)
(* that the arithmetic wraps exactly where the 64-bit arithmetic wraps.    *)
(***************************************************************************)
EXTENDS Integers, Sequences, FiniteSets, TLC

VARIABLES
    money,       \* var money atomic.Int64
    bank,        \* var bank atomic.Int64
    mtx,         \* var mtx sync.Mutex: TRUE while locked
    pc,          \* where each request is in the middleware chain and handler
    inp,         \* each inbound request: route, method, header, body
    ctx,         \* each request's context values
    respHeader,  \* each response's X-Request-ID header
    rw,          \* each request's responseWriter.status
    sink,        \* each request's underlying http.ResponseWriter
    reqBodyInt,  \* the handler's parsed amount
    seen,        \* the balance money.Load() returned to the handler's check
    logs,        \* the lines each request printed
    hist         \* history: the counters when each request took the mutex,
                 \* how many Add calls it made on each, and the calls a
                 \* test handler made on its response writer

vars == <<money, bank, mtx, pc, inp, ctx, respHeader, rw, sink,
          reqBodyInt, seen, logs, hist>>

---------------------------------------------------------------------------
(* int64 arithmetic *)

\* 2^21: the size of one limb of an int64.
Limb == 2097152

\* The int64 whose value is the (small) integer n.
I64(n) ==
    [hi |-> (n \div Limb) \div Limb, mid |-> (n \div Limb) % Limb, lo |-> n % Limb]

MinInt64 == [hi |-> -Limb, mid |-> 0, lo |-> 0]
MaxInt64 == [hi |-> Limb - 1, mid |-> Limb - 1, lo |-> Limb - 1]

\* The hi limb wrapped into 22 signed bits: what is left of a sum in 64 bits.
WrapHi(h) == ((h + Limb) % (2 * Limb)) - Limb

\* x + y in int64 (two's complement, wrapping): atomic.Int64.Add.
Add64(x, y) ==
    LET l == x.lo + y.lo
        m == x.mid + y.mid + (l \div Limb)
        h == x.hi + y.hi + (m \div Limb)
    IN  [hi |-> WrapHi(h), mid |-> m % Limb, lo |-> l % Limb]

\* -x in int64 (wrapping: -MinInt64 = MinInt64): the unary minus of Go.
Neg64(x) ==
    Add64([hi |-> -1 - x.hi, mid |-> Limb - 1 - x.mid, lo |-> Limb - 1 - x.lo],
          I64(1))

\* x >= y on int64.
Geq64(x, y) ==
    \/ x.hi > y.hi
    \/ x.hi = y.hi /\ x.mid > y.mid
    \/ x.hi = y.hi /\ x.mid = y.mid /\ x.lo >= y.lo

IsNeg64(x) == x.hi < 0

---------------------------------------------------------------------------
(* strconv.Atoi and strconv.Itoa on a 64-bit platform *)

Digits == <<"0", "1", "2", "3", "4", "5", "6", "7", "8", "9">>

IsDigit(c) == \E d \in 1..10 : Digits[d] = c

DigitVal(c) == (CHOOSE d \in 1..10 : Digits[d] = c) - 1

\* An unsigned 64-bit number: the limbs of an int64 with hi in 0..2^22-1.
U64Zero == [hi |-> 0, mid |-> 0, lo |-> 0]

\* 2^64 - 1, what ParseUint returns with a range error.
MaxUint64 == [hi |-> 2 * Limb - 1, mid |-> Limb - 1, lo |-> Limb - 1]

\* ParseUint's loop over the digits: n = n*10 + d; on a byte that is no digit
\* it returns 0 and a syntax error, and once the result no longer fits 64
\* bits it returns 2^64-1 and a range error, the rest of s unread.
RECURSIVE ParseDigits(_, _)
ParseDigits(s, n) ==
    IF s = <<>> THEN [ok |-> TRUE, rangeErr |-> FALSE, u |-> n]
    ELSE IF ~IsDigit(Head(s)) THEN [ok |-> FALSE, rangeErr |-> FALSE, u |-> U64Zero]
    ELSE LET l == n.lo * 10 + DigitVal(Head(s))
             m == n.mid * 10 + (l \div Limb)
             h == n.hi * 10 + (m \div Limb)
         IN  IF h >= 2 * Limb THEN [ok |-> FALSE, rangeErr |-> TRUE, u |-> MaxUint64]
             ELSE ParseDigits(Tail(s), [hi |-> h, mid |-> m % Limb, lo |-> l % Limb])

\* strconv.Atoi(s): ok is err == nil, val the int returned.  An optional sign,
\* then at least one digit, nothing else; the magnitude at most 2^63-1, or
\* 2^63 after a minus sign.  With a syntax error val is 0; with a range error
\* it is the nearest int, 2^63-1 or, after a minus sign, -2^63.
Atoi(s) ==
    LET signed == s # <<>> /\ Head(s) \in {"-", "+"}
        neg    == s # <<>> /\ Head(s) = "-"
        digits == IF signed THEN Tail(s) ELSE s
        p      == ParseDigits(digits, U64Zero)
        tooBig == IF neg
                  THEN \/ p.u.hi > Limb
                       \/ p.u.hi = Limb /\ (p.u.mid > 0 \/ p.u.lo > 0)
                  ELSE p.u.hi >= Limb
        v      == [hi |-> WrapHi(p.u.hi), mid |-> p.u.mid, lo |-> p.u.lo]
    IN  IF digits = <<>> \/ (~p.ok /\ ~p.rangeErr)
        THEN [ok |-> FALSE, val |-> I64(0)]
        ELSE IF tooBig
        THEN [ok |-> FALSE, val |-> IF neg THEN MinInt64 ELSE MaxInt64]
        ELSE [ok |-> TRUE, val |-> IF neg THEN Neg64(v) ELSE v]

\* The decimal digits of an unsigned 64-bit number, by repeated division by 10.
RECURSIVE FormatUint(_)
FormatUint(u) ==
    LET qh == u.hi \div 10
        m  == (u.hi % 10) * Limb + u.mid
        qm == m \div 10
        l  == (m % 10) * Limb + u.lo
        ql == l \div 10
        q  == [hi |-> qh, mid |-> qm, lo |-> ql]
    IN  IF q = U64Zero THEN <<Digits[(l % 10) + 1]>>
        ELSE Append(FormatUint(q), Digits[(l % 10) + 1])

\* strconv.Itoa(int(x)) for an int64 x: a minus sign and the magnitude.
Itoa(x) ==
    IF IsNeg64(x)
    THEN LET n == Neg64(x)
         IN  <<"-">> \o FormatUint([hi |-> n.hi % (2 * Limb), mid |-> n.mid, lo |-> n.lo])
    ELSE FormatUint(x)

---------------------------------------------------------------------------
(* generateRequestID: 16 random bytes in unpadded URL-safe base64 *)

\* The alphabet of base64.RawURLEncoding.
Base64Alphabet ==
    <<
      "A", "B", "C", "D", "E", "F", "G", "H", "I", "J", "K", "L", "M", "N", "O", "P",
      "Q", "R", "S", "T", "U", "V", "W", "X", "Y", "Z", "a", "b", "c", "d", "e", "f",
      "g", "h", "i", "j", "k", "l", "m", "n", "o", "p", "q", "r", "s", "t", "u", "v",
      "w", "x", "y", "z", "0", "1", "2", "3", "4", "5", "6", "7", "8", "9", "-", "_" >>

Sextet(n) == Base64Alphabet[n + 1]

\* base64.RawURLEncoding.EncodeToString: four characters for every three
\* bytes, then two or three characters for one or two bytes left, no padding.
RECURSIVE EncodeToString(_)
EncodeToString(b) ==
    IF Len(b) = 0 THEN <<>>
    ELSE IF Len(b) = 1 THEN
        <<Sextet(b[1] \div 4), Sextet((b[1] % 4) * 16)>>
    ELSE IF Len(b) = 2 THEN
        <<Sextet(b[1] \div 4), Sextet((b[1] % 4) * 16 + (b[2] \div 16)),
          Sextet((b[2] % 16) * 4)>>
    ELSE
        <<Sextet(b[1] \div 4), Sextet((b[1] % 4) * 16 + (b[2] \div 16)),
          Sextet((b[2] % 16) * 4 + (b[3] \div 64)), Sextet(b[3] % 64)>>
        \o EncodeToString(SubSeq(b, 4, Len(b)))

FallbackID == <<"f", "a", "l", "l", "b", "a", "c", "k", "-", "i", "d">>

\* generateRequestID(): r is what rand.Read gave, r.ok its err == nil and
\* r.bytes the 16 bytes it filled.
generateRequestID(r) ==
    IF ~r.ok THEN FallbackID ELSE EncodeToString(r.bytes)

---------------------------------------------------------------------------
(* requests *)

\* How many requests the server handles, all of them concurrently.
NumRequests == 2

Reqs == 1..NumRequests

\* main(): money.Add(1000) on the zero counter.
InitialBalance == 1000

RequestIDContextKey == "requestID"

\* Request bodies.
Body150   == <<"1", "5", "0">>
Body600   == <<"6", "0", "0">>
Body1500  == <<"1", "5", "0", "0">>
BodyZero  == <<"0">>
BodyNeg   == <<"-", "1", "0", "0">>
BodyMin   == <<"-", "9", "2", "2", "3", "3", "7", "2", "0", "3", "6", "8", "5", "4", "7", "7", "5", "8", "0", "8">>
BodyOver  == <<"9", "2", "2", "3", "3", "7", "2", "0", "3", "6", "8", "5", "4", "7", "7", "5", "8", "0", "8">>
BodyText  == <<"n", "o", "t", "-", "a", "-", "n", "u", "m", "b", "e", "r">>
BodyEmpty == <<>>

Bodies ==
    {Body150, Body600, Body1500, BodyZero, BodyNeg, BodyMin, BodyOver,
     BodyText, BodyEmpty}

\* Values of the inbound X-Request-ID header as r.Header.Get returns them:
\* absent or empty, one space, two spaces, a tab, a client's identifier.
HdrNone   == <<>>
HdrSpace  == <<" ">>
HdrSpaces == <<" ", " ">>
HdrTab    == <<"\t">>
HdrClient == <<"a", "b", "c", "-", "1", "2", "3">>

Headers == {HdrNone, HdrSpace, HdrSpaces, HdrTab, HdrClient}

\* What rand.Read can do: fail, or fill the 16 bytes.
RandFail  == [ok |-> FALSE, bytes |-> <<>>]
RandBytes == [ok |-> TRUE,
              bytes |-> <<0, 1, 2, 3, 4, 5, 6, 7, 8, 9, 10, 11, 12, 13, 14, 15>>]

\* What io.ReadAll(r.Body) can do: return the body, or fail with an error.
ReadOK   == <<>>
ReadFail == <<"u", "n", "e", "x", "p", "e", "c", "t", "e", "d", " ", "E", "O", "F">>

NoRequest ==
    [kind |-> "none", method |-> "", hdr |-> <<>>, rand |-> RandFail,
     body |-> <<>>, readErr |-> ReadOK]

\* Every request the model knows: either route, either method, every header
\* value, either outcome of the random source, every body, read or not.
AllInputs ==
    {[kind |-> k, method |-> m, hdr |-> h, rand |-> r, body |-> b, readErr |-> e] :
        k \in {"pay", "save"}, m \in {"POST", "GET"}, h \in Headers,
        r \in {RandFail, RandBytes}, b \in Bodies, e \in {ReadOK, ReadFail}}

\* The requests sent concurrently: on either route, an amount the balance
\* covers, one it covers once but not twice, one it does not cover, zero, a
\* negative one, the least int64 and a body that is no number.
ConcurrentBodies ==
    {Body150, Body600, Body1500, BodyZero, BodyNeg, BodyMin, BodyText}

ConcurrentInputs ==
    {r \in AllInputs :
        /\ r.method = "POST" /\ r.hdr = HdrClient /\ r.rand = RandBytes
        /\ r.readErr = ReadOK /\ r.body \in ConcurrentBodies}

\* The requests the tests send to a handler of their own, wrapped in the
\* middleware: TestLoggingMiddleware, TestRequestIDMiddleware.
TestInputs ==
    {[kind |-> "test", method |-> m, hdr |-> h, rand |-> r, body |-> <<>>,
      readErr |-> ReadOK] :
        m \in {"POST", "GET"}, h \in Headers, r \in {RandFail, RandBytes}}

Path(r) ==
    IF r.kind = "pay" THEN "/pay" ELSE IF r.kind = "save" THEN "/save" ELSE "/test"

\* GetRequestID(ctx): the context's value under the key, "" without one.
GetRequestID(c) ==
    IF RequestIDContextKey \in DOMAIN c THEN c[RequestIDContextKey] ELSE <<>>

NoContext == [k \in {} |-> <<>>]

\* http.ResponseWriter.Write: the first write sends the status line, 200
\* unless WriteHeader set another, then the data.
SinkWrite(s, data) ==
    [s EXCEPT !.status = IF s.status = 0 THEN 200 ELSE s.status,
              !.headerWrites = IF s.status = 0 THEN s.headerWrites + 1 ELSE s.headerWrites,
              !.body = s.body \o data]

\* http.ResponseWriter.WriteHeader: the first call sends the status line with
\* its code, unless a write has sent it already; any later call is
\* superfluous and sends nothing.  headerCalls counts the calls received.
SinkWriteHeader(s, code) ==
    [s EXCEPT !.status = IF s.status = 0 THEN code ELSE s.status,
              !.headerWrites = IF s.status = 0 THEN s.headerWrites + 1 ELSE s.headerWrites,
              !.headerCalls = s.headerCalls + 1]

\* fmt.Sprintf("current balance: %s, current bank: %s", valueMoney, valuebank)
Sprintf(valueMoney, valuebank) ==
    <<"current balance: ">> \o valueMoney \o <<", current bank: ">> \o valuebank

MsgInvalid == <<"invalid amount">>
MsgLow     == <<"low balance">>
MsgLowSave == <<"low balance for bank transfer">>
MsgReadErr(e) == <<"error read HTTP body">> \o e

Init ==
    /\ money = Add64(I64(0), I64(InitialBalance))
    /\ bank = I64(0)
    /\ mtx = FALSE
    /\ pc = [i \in Reqs |-> "idle"]
    /\ inp = [i \in Reqs |-> NoRequest]
    /\ ctx = [i \in Reqs |-> NoContext]
    /\ respHeader = [i \in Reqs |-> <<>>]
    /\ rw = [i \in Reqs |-> 0]
    /\ sink = [i \in Reqs |->
            [status |-> 0, headerWrites |-> 0, headerCalls |-> 0, body |-> <<>>]]
    /\ reqBodyInt = [i \in Reqs |-> I64(0)]
    /\ seen = [i \in Reqs |-> I64(0)]
    /\ logs = [i \in Reqs |-> <<>>]
    /\ hist = [i \in Reqs |->
            [moneyAdds |-> 0, bankAdds |-> 0, money0 |-> I64(0), bank0 |-> I64(0),
             calls |-> <<>>]]

---------------------------------------------------------------------------
(* the middleware chain *)

\* The header value for which RequestIDMiddleware generates an identifier.
NeedsGenerated(h) == h = <<>> \/ h = <<" ">>

\* A slip in RequestIDMiddleware: the response header echoes the inbound
\* header rather than the identifier resolved.
RequestIDMiddlewareEchoesHeader(i, requests) ==
    /\ pc[i] = "idle"
    /\ \E r \in requests :
        LET id == IF NeedsGenerated(r.hdr) THEN generateRequestID(r.rand)
                  ELSE r.hdr
        IN  /\ inp' = [inp EXCEPT ![i] = r]
            /\ ctx' = [ctx EXCEPT ![i] = (RequestIDContextKey :> id)]
            /\ respHeader' = [respHeader EXCEPT ![i] = r.hdr]
    /\ pc' = [pc EXCEPT ![i] = "logging"]
    /\ UNCHANGED <<money, bank, mtx, rw, sink, reqBodyInt, seen, logs, hist>>

\* RequestIDMiddleware: a request arrives; its identifier is resolved, put in
\* the context and in the response header, and the next handler is called.
RequestIDMiddleware(i, requests) ==
    /\ pc[i] = "idle"
    /\ \E r \in requests :
        LET id == IF NeedsGenerated(r.hdr) THEN generateRequestID(r.rand)
                  ELSE r.hdr
        IN  /\ inp' = [inp EXCEPT ![i] = r]
            /\ ctx' = [ctx EXCEPT ![i] = (RequestIDContextKey :> id)]
            /\ respHeader' = [respHeader EXCEPT ![i] = id]
    /\ pc' = [pc EXCEPT ![i] = "logging"]
    /\ UNCHANGED <<money, bank, mtx, rw, sink, reqBodyInt, seen, logs, hist>>

\* LoggingMiddleware up to next.ServeHTTP: the start line, the recorder.
LoggingStart(i) ==
    /\ pc[i] = "logging"
    /\ logs' = [logs EXCEPT ![i] = Append(@,
            [ev |-> "Start", id |-> GetRequestID(ctx[i]),
             method |-> inp[i].method, path |-> Path(inp[i])])]
    /\ rw' = [rw EXCEPT ![i] = 200]
    /\ pc' = [pc EXCEPT ![i] = inp[i].kind]
    /\ UNCHANGED <<money, bank, mtx, inp, ctx, respHeader, sink, reqBodyInt,
                   seen, hist>>

\* A slip in LoggingMiddleware: the end line written with http.StatusOK, not
\* with the status of the recorder.
LoggingEndFixedStatus(i) ==
    /\ pc[i] = "logEnd"
    /\ logs' = [logs EXCEPT ![i] = Append(@,
            [ev |-> "End", id |-> GetRequestID(ctx[i]),
             method |-> inp[i].method, path |-> Path(inp[i]),
             status |-> 200])]
    /\ pc' = [pc EXCEPT ![i] = "done"]
    /\ UNCHANGED <<money, bank, mtx, inp, ctx, respHeader, rw, sink,
                   reqBodyInt, seen, hist>>

\* LoggingMiddleware after next.ServeHTTP returned: the end line.
LoggingEnd(i) ==
    /\ pc[i] = "logEnd"
    /\ logs' = [logs EXCEPT ![i] = Append(@,
            [ev |-> "End", id |-> GetRequestID(ctx[i]),
             method |-> inp[i].method, path |-> Path(inp[i]),
             status |-> rw[i]])]
    /\ pc' = [pc EXCEPT ![i] = "done"]
    /\ UNCHANGED <<money, bank, mtx, inp, ctx, respHeader, rw, sink,
                   reqBodyInt, seen, hist>>

---------------------------------------------------------------------------
(* payHandler *)

\* A slip in payHandler: the error of strconv.Atoi dropped, the handler goes
\* on with the 0 that Atoi returned.
PayParseIgnoresError(i) ==
    /\ pc[i] = "pay"
    /\ LET a == Atoi(inp[i].body)
       IN  IF inp[i].readErr # ReadOK THEN
               /\ logs' = [logs EXCEPT ![i] = Append(@,
                      [ev |-> "error read HTTP body", id |-> GetRequestID(ctx[i])])]
               /\ sink' = [sink EXCEPT ![i] = SinkWrite(@, MsgReadErr(inp[i].readErr))]
               /\ pc' = [pc EXCEPT ![i] = "logEnd"]
               /\ UNCHANGED reqBodyInt
           ELSE
               /\ reqBodyInt' = [reqBodyInt EXCEPT ![i] = a.val]
               /\ pc' = [pc EXCEPT ![i] = "payLock"]
               /\ UNCHANGED <<logs, sink>>
    /\ UNCHANGED <<money, bank, mtx, inp, ctx, respHeader, rw, seen, hist>>

\* payHandler up to mtx.Lock(): read the body, parse the amount; a read
\* error or a parse error is written to the response and the handler returns.
PayParse(i) ==
    /\ pc[i] = "pay"
    /\ LET a == Atoi(inp[i].body)
       IN  IF inp[i].readErr # ReadOK THEN
               /\ logs' = [logs EXCEPT ![i] = Append(@,
                      [ev |-> "error read HTTP body", id |-> GetRequestID(ctx[i])])]
               /\ sink' = [sink EXCEPT ![i] = SinkWrite(@, MsgReadErr(inp[i].readErr))]
               /\ pc' = [pc EXCEPT ![i] = "logEnd"]
               /\ UNCHANGED reqBodyInt
           ELSE IF ~a.ok THEN
               /\ logs' = [logs EXCEPT ![i] = Append(@,
                      [ev |-> "Parse error", id |-> GetRequestID(ctx[i])])]
               /\ sink' = [sink EXCEPT ![i] = SinkWrite(@, MsgInvalid)]
               /\ pc' = [pc EXCEPT ![i] = "logEnd"]
               /\ UNCHANGED reqBodyInt
           ELSE
               /\ reqBodyInt' = [reqBodyInt EXCEPT ![i] = a.val]
               /\ pc' = [pc EXCEPT ![i] = "payLock"]
               /\ UNCHANGED <<logs, sink>>
    /\ UNCHANGED <<money, bank, mtx, inp, ctx, respHeader, rw, seen, hist>>

\* A slip in payHandler: the handler goes on without waiting for the mutex.
PayLockNoWait(i) ==
    /\ pc[i] = "payLock"
    /\ mtx' = TRUE
    /\ hist' = [hist EXCEPT ![i].money0 = money, ![i].bank0 = bank]
    /\ pc' = [pc EXCEPT ![i] = "payCheck"]
    /\ UNCHANGED <<money, bank, inp, ctx, respHeader, rw, sink, reqBodyInt,
                   seen, logs>>

\* payHandler: mtx.Lock() returns once the mutex is free, and holds it.
PayLock(i) ==
    /\ pc[i] = "payLock"
    /\ mtx = FALSE
    /\ mtx' = TRUE
    /\ hist' = [hist EXCEPT ![i].money0 = money, ![i].bank0 = bank]
    /\ pc' = [pc EXCEPT ![i] = "payCheck"]
    /\ UNCHANGED <<money, bank, inp, ctx, respHeader, rw, sink, reqBodyInt,
                   seen, logs>>

\* A slip in payHandler: the operands of the check exchanged.
PayCheckSwapped(i) ==
    /\ pc[i] = "payCheck"
    /\ seen' = [seen EXCEPT ![i] = money]
    /\ pc' = [pc EXCEPT ![i] =
            IF Geq64(reqBodyInt[i], money) THEN "payDebit" ELSE "payLow"]
    /\ UNCHANGED <<money, bank, mtx, inp, ctx, respHeader, rw, sink,
                   reqBodyInt, logs, hist>>

\* A change to payHandler that breaks the contract: the success branch taken
\* only for an amount above zero.
PayCheckPositive(i) ==
    /\ pc[i] = "payCheck"
    /\ seen' = [seen EXCEPT ![i] = money]
    /\ pc' = [pc EXCEPT ![i] =
            IF /\ reqBodyInt[i] # I64(0)
               /\ ~IsNeg64(reqBodyInt[i])
               /\ Geq64(money, reqBodyInt[i])
            THEN "payDebit" ELSE "payLow"]
    /\ UNCHANGED <<money, bank, mtx, inp, ctx, respHeader, rw, sink,
                   reqBodyInt, logs, hist>>

\* payHandler: if money.Load() >= int64(reqBodyInt).
PayCheck(i) ==
    /\ pc[i] = "payCheck"
    /\ seen' = [seen EXCEPT ![i] = money]
    /\ pc' = [pc EXCEPT ![i] =
            IF Geq64(money, reqBodyInt[i]) THEN "payDebit" ELSE "payLow"]
    /\ UNCHANGED <<money, bank, mtx, inp, ctx, respHeader, rw, sink,
                   reqBodyInt, logs, hist>>

\* A slip in payHandler: the amount taken from the balance twice.
PayDebitTwice(i) ==
    /\ pc[i] = "payDebit"
    /\ money' = Add64(Add64(money, Neg64(reqBodyInt[i])), Neg64(reqBodyInt[i]))
    /\ hist' = [hist EXCEPT ![i].moneyAdds = @ + 1]
    /\ pc' = [pc EXCEPT ![i] = "payRespond"]
    /\ UNCHANGED <<bank, mtx, inp, ctx, respHeader, rw, sink, reqBodyInt,
                   seen, logs>>

\* payHandler: money.Add(int64(-reqBodyInt)).
PayDebit(i) ==
    /\ pc[i] = "payDebit"
    /\ money' = Add64(money, Neg64(reqBodyInt[i]))
    /\ hist' = [hist EXCEPT ![i].moneyAdds = @ + 1]
    /\ pc' = [pc EXCEPT ![i] = "payRespond"]
    /\ UNCHANGED <<bank, mtx, inp, ctx, respHeader, rw, sink, reqBodyInt,
                   seen, logs>>

\* A slip in payHandler: the response rendered from the balance loaded for
\* the check, before the debit.
PayRespondStale(i) ==
    /\ pc[i] = "payRespond"
    /\ logs' = [logs EXCEPT ![i] = Append(@,
            [ev |-> "Payment successful", id |-> GetRequestID(ctx[i]),
             amount |-> reqBodyInt[i], balance |-> money])]
    /\ sink' = [sink EXCEPT ![i] = SinkWrite(@, Sprintf(Itoa(seen[i]), Itoa(bank)))]
    /\ pc' = [pc EXCEPT ![i] = "payUnlock"]
    /\ UNCHANGED <<money, bank, mtx, inp, ctx, respHeader, rw, reqBodyInt,
                   seen, hist>>

\* payHandler, the success branch after the update: the log line and the
\* response, both from what the counters hold now.
PayRespond(i) ==
    /\ pc[i] = "payRespond"
    /\ logs' = [logs EXCEPT ![i] = Append(@,
            [ev |-> "Payment successful", id |-> GetRequestID(ctx[i]),
             amount |-> reqBodyInt[i], balance |-> money])]
    /\ sink' = [sink EXCEPT ![i] = SinkWrite(@, Sprintf(Itoa(money), Itoa(bank)))]
    /\ pc' = [pc EXCEPT ![i] = "payUnlock"]
    /\ UNCHANGED <<money, bank, mtx, inp, ctx, respHeader, rw, reqBodyInt,
                   seen, hist>>

\* A slip in payHandler: the debit made outside the if, so also when refusing.
PayLowDebits(i) ==
    /\ pc[i] = "payLow"
    /\ money' = Add64(money, Neg64(reqBodyInt[i]))
    /\ hist' = [hist EXCEPT ![i].moneyAdds = @ + 1]
    /\ logs' = [logs EXCEPT ![i] = Append(@,
            [ev |-> "Low balance", id |-> GetRequestID(ctx[i]),
             amount |-> reqBodyInt[i], balance |-> money])]
    /\ sink' = [sink EXCEPT ![i] = SinkWrite(@, MsgLow)]
    /\ pc' = [pc EXCEPT ![i] = "payUnlock"]
    /\ UNCHANGED <<bank, mtx, inp, ctx, respHeader, rw, reqBodyInt, seen>>

\* A slip in payHandler: mtx.Unlock() written at the end of the success
\* branch and not deferred, so the else branch returns with the mutex held.
PayLowKeepsLock(i) ==
    /\ pc[i] = "payLow"
    /\ logs' = [logs EXCEPT ![i] = Append(@,
            [ev |-> "Low balance", id |-> GetRequestID(ctx[i]),
             amount |-> reqBodyInt[i], balance |-> money])]
    /\ sink' = [sink EXCEPT ![i] = SinkWrite(@, MsgLow)]
    /\ pc' = [pc EXCEPT ![i] = "logEnd"]
    /\ UNCHANGED <<money, bank, mtx, inp, ctx, respHeader, rw, reqBodyInt,
                   seen, hist>>

\* payHandler, the else branch: the log line and the fixed message.
PayLow(i) ==
    /\ pc[i] = "payLow"
    /\ logs' = [logs EXCEPT ![i] = Append(@,
            [ev |-> "Low balance", id |-> GetRequestID(ctx[i]),
             amount |-> reqBodyInt[i], balance |-> money])]
    /\ sink' = [sink EXCEPT ![i] = SinkWrite(@, MsgLow)]
    /\ pc' = [pc EXCEPT ![i] = "payUnlock"]
    /\ UNCHANGED <<money, bank, mtx, inp, ctx, respHeader, rw, reqBodyInt,
                   seen, hist>>

\* payHandler returns: the deferred mtx.Unlock().
PayUnlock(i) ==
    /\ pc[i] = "payUnlock"
    /\ mtx' = FALSE
    /\ pc' = [pc EXCEPT ![i] = "logEnd"]
    /\ UNCHANGED <<money, bank, inp, ctx, respHeader, rw, sink, reqBodyInt,
                   seen, logs, hist>>

---------------------------------------------------------------------------
(* saveHandler *)

\* A change to saveHandler that breaks the contract: a parse error answered
\* with w.WriteHeader(400) before the message.
SaveParseBadRequest(i) ==
    /\ pc[i] = "save"
    /\ LET a == Atoi(inp[i].body)
       IN  IF inp[i].readErr # ReadOK THEN
               /\ logs' = [logs EXCEPT ![i] = Append(@,
                      [ev |-> "error read HTTP body", id |-> GetRequestID(ctx[i])])]
               /\ sink' = [sink EXCEPT ![i] = SinkWrite(@, MsgReadErr(inp[i].readErr))]
               /\ pc' = [pc EXCEPT ![i] = "logEnd"]
               /\ UNCHANGED <<reqBodyInt, rw>>
           ELSE IF ~a.ok THEN
               /\ logs' = [logs EXCEPT ![i] = Append(@,
                      [ev |-> "Parse error", id |-> GetRequestID(ctx[i])])]
               /\ rw' = [rw EXCEPT ![i] = 400]
               /\ sink' = [sink EXCEPT ![i] =
                      SinkWrite(SinkWriteHeader(@, 400), MsgInvalid)]
               /\ pc' = [pc EXCEPT ![i] = "logEnd"]
               /\ UNCHANGED reqBodyInt
           ELSE
               /\ reqBodyInt' = [reqBodyInt EXCEPT ![i] = a.val]
               /\ pc' = [pc EXCEPT ![i] = "saveLock"]
               /\ UNCHANGED <<logs, sink, rw>>
    /\ UNCHANGED <<money, bank, mtx, inp, ctx, respHeader, seen, hist>>

\* saveHandler up to mtx.Lock(): read the body, parse the amount; a read
\* error or a parse error is written to the response and the handler returns.
SaveParse(i) ==
    /\ pc[i] = "save"
    /\ LET a == Atoi(inp[i].body)
       IN  IF inp[i].readErr # ReadOK THEN
               /\ logs' = [logs EXCEPT ![i] = Append(@,
                      [ev |-> "error read HTTP body", id |-> GetRequestID(ctx[i])])]
               /\ sink' = [sink EXCEPT ![i] = SinkWrite(@, MsgReadErr(inp[i].readErr))]
               /\ pc' = [pc EXCEPT ![i] = "logEnd"]
               /\ UNCHANGED reqBodyInt
           ELSE IF ~a.ok THEN
               /\ logs' = [logs EXCEPT ![i] = Append(@,
                      [ev |-> "Parse error", id |-> GetRequestID(ctx[i])])]
               /\ sink' = [sink EXCEPT ![i] = SinkWrite(@, MsgInvalid)]
               /\ pc' = [pc EXCEPT ![i] = "logEnd"]
               /\ UNCHANGED reqBodyInt
           ELSE
               /\ reqBodyInt' = [reqBodyInt EXCEPT ![i] = a.val]
               /\ pc' = [pc EXCEPT ![i] = "saveLock"]
               /\ UNCHANGED <<logs, sink>>
    /\ UNCHANGED <<money, bank, mtx, inp, ctx, respHeader, rw, seen, hist>>

\* A slip in saveHandler: the handler goes on without waiting for the mutex.
SaveLockNoWait(i) ==
    /\ pc[i] = "saveLock"
    /\ mtx' = TRUE
    /\ hist' = [hist EXCEPT ![i].money0 = money, ![i].bank0 = bank]
    /\ pc' = [pc EXCEPT ![i] = "saveCheck"]
    /\ UNCHANGED <<money, bank, inp, ctx, respHeader, rw, sink, reqBodyInt,
                   seen, logs>>

\* saveHandler: mtx.Lock() returns once the mutex is free, and holds it.
SaveLock(i) ==
    /\ pc[i] = "saveLock"
    /\ mtx = FALSE
    /\ mtx' = TRUE
    /\ hist' = [hist EXCEPT ![i].money0 = money, ![i].bank0 = bank]
    /\ pc' = [pc EXCEPT ![i] = "saveCheck"]
    /\ UNCHANGED <<money, bank, inp, ctx, respHeader, rw, sink, reqBodyInt,
                   seen, logs>>

\* saveHandler: if money.Load() >= int64(reqBodyInt).
SaveCheck(i) ==
    /\ pc[i] = "saveCheck"
    /\ seen' = [seen EXCEPT ![i] = money]
    /\ pc' = [pc EXCEPT ![i] =
            IF Geq64(money, reqBodyInt[i]) THEN "saveDebit" ELSE "saveLow"]
    /\ UNCHANGED <<money, bank, mtx, inp, ctx, respHeader, rw, sink,
                   reqBodyInt, logs, hist>>

\* saveHandler: money.Add(int64(-reqBodyInt)).
SaveDebit(i) ==
    /\ pc[i] = "saveDebit"
    /\ money' = Add64(money, Neg64(reqBodyInt[i]))
    /\ hist' = [hist EXCEPT ![i].moneyAdds = @ + 1]
    /\ pc' = [pc EXCEPT ![i] = "saveCredit"]
    /\ UNCHANGED <<bank, mtx, inp, ctx, respHeader, rw, sink, reqBodyInt,
                   seen, logs>>

\* A slip in saveHandler: the credit copied from the debit, sign and all.
SaveCreditNegated(i) ==
    /\ pc[i] = "saveCredit"
    /\ bank' = Add64(bank, Neg64(reqBodyInt[i]))
    /\ hist' = [hist EXCEPT ![i].bankAdds = @ + 1]
    /\ pc' = [pc EXCEPT ![i] = "saveRespond"]
    /\ UNCHANGED <<money, mtx, inp, ctx, respHeader, rw, sink, reqBodyInt,
                   seen, logs>>

\* A slip in saveHandler: the credit of the bank left out.
SaveCreditSkipped(i) ==
    /\ pc[i] = "saveCredit"
    /\ hist' = [hist EXCEPT ![i].bankAdds = @ + 1]
    /\ pc' = [pc EXCEPT ![i] = "saveRespond"]
    /\ UNCHANGED <<money, bank, mtx, inp, ctx, respHeader, rw, sink,
                   reqBodyInt, seen, logs>>

\* saveHandler: bank.Add(int64(reqBodyInt)).
SaveCredit(i) ==
    /\ pc[i] = "saveCredit"
    /\ bank' = Add64(bank, reqBodyInt[i])
    /\ hist' = [hist EXCEPT ![i].bankAdds = @ + 1]
    /\ pc' = [pc EXCEPT ![i] = "saveRespond"]
    /\ UNCHANGED <<money, mtx, inp, ctx, respHeader, rw, sink, reqBodyInt,
                   seen, logs>>

\* saveHandler, the success branch after the update: the log line and the
\* response, both from what the counters hold now.
SaveRespond(i) ==
    /\ pc[i] = "saveRespond"
    /\ logs' = [logs EXCEPT ![i] = Append(@,
            [ev |-> "Transfer successful", id |-> GetRequestID(ctx[i]),
             amount |-> reqBodyInt[i], balance |-> money, bank |-> bank])]
    /\ sink' = [sink EXCEPT ![i] = SinkWrite(@, Sprintf(Itoa(money), Itoa(bank)))]
    /\ pc' = [pc EXCEPT ![i] = "saveUnlock"]
    /\ UNCHANGED <<money, bank, mtx, inp, ctx, respHeader, rw, reqBodyInt,
                   seen, hist>>

\* saveHandler, the else branch: the log line and the fixed message.
SaveLow(i) ==
    /\ pc[i] = "saveLow"
    /\ logs' = [logs EXCEPT ![i] = Append(@,
            [ev |-> "Low balance for transfer", id |-> GetRequestID(ctx[i]),
             amount |-> reqBodyInt[i], balance |-> money])]
    /\ sink' = [sink EXCEPT ![i] = SinkWrite(@, MsgLowSave)]
    /\ pc' = [pc EXCEPT ![i] = "saveUnlock"]
    /\ UNCHANGED <<money, bank, mtx, inp, ctx, respHeader, rw, reqBodyInt,
                   seen, hist>>

\* saveHandler returns: the deferred mtx.Unlock().
SaveUnlock(i) ==
    /\ pc[i] = "saveUnlock"
    /\ mtx' = FALSE
    /\ pc' = [pc EXCEPT ![i] = "logEnd"]
    /\ UNCHANGED <<money, bank, inp, ctx, respHeader, rw, sink, reqBodyInt,
                   seen, logs, hist>>

---------------------------------------------------------------------------
(* a test handler: any calls on the response writer it is given *)

\* How many calls a test handler makes on its response writer, at most.
MaxCalls == 3

\* The status codes a test handler sets.
StatusCodes == {200, 404, 500}

\* The handler calls w.WriteHeader(code) on the recorder it was given:
\* responseWriter.WriteHeader records the code and passes the call on.
TestWriteHeader(i) ==
    /\ pc[i] = "test"
    /\ Len(hist[i].calls) < MaxCalls
    /\ \E code \in StatusCodes :
        /\ rw' = [rw EXCEPT ![i] = code]
        /\ sink' = [sink EXCEPT ![i] = SinkWriteHeader(@, code)]
        /\ hist' = [hist EXCEPT ![i].calls =
                Append(@, [op |-> "WriteHeader", code |-> code])]
    /\ UNCHANGED <<money, bank, mtx, pc, inp, ctx, respHeader, reqBodyInt,
                   seen, logs>>

\* The handler calls w.Write: the recorder has no Write of its own, the call
\* is the embedded http.ResponseWriter's.
TestWrite(i) ==
    /\ pc[i] = "test"
    /\ Len(hist[i].calls) < MaxCalls
    /\ sink' = [sink EXCEPT ![i] = SinkWrite(@, <<"OK">>)]
    /\ hist' = [hist EXCEPT ![i].calls = Append(@, [op |-> "Write"])]
    /\ UNCHANGED <<money, bank, mtx, pc, inp, ctx, respHeader, rw, reqBodyInt,
                   seen, logs>>

\* The handler returns to LoggingMiddleware.
TestReturn(i) ==
    /\ pc[i] = "test"
    /\ pc' = [pc EXCEPT ![i] = "logEnd"]
    /\ UNCHANGED <<money, bank, mtx, inp, ctx, respHeader, rw, sink,
                   reqBodyInt, seen, logs, hist>>

---------------------------------------------------------------------------
(* the server *)

\* One step of request i once it has arrived.
Proceed(i) ==
    \/ LoggingStart(i)
    \/ PayParse(i)
    \/ PayLock(i)
    \/ PayCheck(i)
    \/ PayDebit(i)
    \/ PayRespond(i)
    \/ PayLow(i)
    \/ PayUnlock(i)
    \/ SaveParse(i)
    \/ SaveLock(i)
    \/ SaveCheck(i)
    \/ SaveDebit(i)
    \/ SaveCredit(i)
    \/ SaveRespond(i)
    \/ SaveLow(i)
    \/ SaveUnlock(i)
    \/ LoggingEnd(i)

\* One step of request i, which arrives as one of `requests`.
Step(i, requests) ==
    \/ RequestIDMiddleware(i, requests)
    \/ Proceed(i)

\* The server under load: every request runs concurrently with the others.
Next == \E i \in Reqs : Step(i, ConcurrentInputs)

Spec == Init /\ [][Next]_vars

\* The server handling a single request, of any kind.
NextSingle == Step(1, AllInputs)

SpecSingle == Init /\ [][NextSingle]_vars

\* The middleware chain around any handler, for a single request: the two
\* handlers of the server, or a test handler.
NextChain ==
    \/ Step(1, AllInputs \cup TestInputs)
    \/ TestWriteHeader(1)
    \/ TestWrite(1)
    \/ TestReturn(1)

SpecChain == Init /\ [][NextChain]_vars

\* The requests of the server under load when fairness is assumed: on either
\* route, an amount the balance covers once but not twice, and no number.
FairInputs ==
    {r \in ConcurrentInputs : r.body \in {Body600, BodyText}}

NextFair == \E i \in Reqs : Step(i, FairInputs)

\* The scheduler lets every goroutine that can take a step take one: a
\* request that has arrived is not left behind for ever.
Fairness == \A i \in Reqs : WF_vars(Proceed(i))

SpecFair == Init /\ [][NextFair]_vars /\ Fairness

---------------------------------------------------------------------------
(* what the claims speak of *)

\* The amount the body of request i parses to, when it does.
Parsed(i) == inp[i].readErr = ReadOK /\ Atoi(inp[i].body).ok

Amount(i) == Atoi(inp[i].body).val

\* Request i's handler has written its response.
Responded(i) ==
    pc[i] \in {"payUnlock", "saveUnlock", "logEnd", "done"}

\* The response of request i reports success (as the tests recognise it).
IsSuccess(i) ==
    sink[i].body # <<>> /\ Head(sink[i].body) = "current balance: "

\* The response of request i contains "low balance" (as the tests recognise
\* a refusal): of the pieces the handlers write, the two messages that do.
IsLowBalance(i) ==
    \E k \in 1..Len(sink[i].body) :
        sink[i].body[k] \in {"low balance", "low balance for bank transfer"}

\* Where a request is from mtx.Lock() returning to mtx.Unlock().
CriticalPcs ==
    {"payCheck", "payDebit", "payRespond", "payLow", "payUnlock",
     "saveCheck", "saveDebit", "saveCredit", "saveRespond", "saveLow",
     "saveUnlock"}

\* Where the next step of a request loads or adds to money or bank.
LedgerPcs ==
    {"payCheck", "payDebit", "payRespond", "payLow",
     "saveCheck", "saveDebit", "saveCredit", "saveRespond", "saveLow"}

\* Request i made the step from state to next state.
Stepped(i) == pc'[i] # pc[i]

---------------------------------------------------------------------------
(* C1 *)

\* C1 (no overdraft): in every reachable state of every interleaving of pay
\* and save requests carrying any amount the parser accepts, balance >= 0.
\* The code refutes it: a negative amount passes the check, and the least
\* int64 is its own negation, so the debit adds it to the balance.
C1_NoOverdraft == ~IsNeg64(money)

---------------------------------------------------------------------------
(* C2 *)

\* C2: bank >= 0 in every reachable state.  The code refutes it: a save of a
\* negative amount passes the check and is added to bank.
C2_BankNonNegative == ~IsNeg64(bank)

---------------------------------------------------------------------------
(* C3 *)

\* C3 (monotonicity and frame): in every step balance does not increase and
\* bank does not decrease; balance changes only in the debit of a pay or save
\* that passed its check, bank only in the credit of such a save.  The code
\* refutes the monotonicity: a negative amount raises balance and lowers bank.
C3_MonotoneFrame ==
    [][ /\ Geq64(money, money')
        /\ Geq64(bank', bank)
        /\ (money' # money =>
                \E i \in Reqs : Stepped(i) /\ pc[i] \in {"payDebit", "saveDebit"})
        /\ (bank' # bank =>
                \E i \in Reqs : Stepped(i) /\ pc[i] = "saveCredit")
      ]_vars

---------------------------------------------------------------------------
(* C4 *)

\* C4 (save atomicity): once a save has passed its check and made both
\* updates, balance is the balance it found when it took the mutex minus the
\* amount and bank the bank it found plus the amount (int64 arithmetic, as
\* the counters compute); and while the debit is applied and the credit is
\* not, no other request is at a load or an add of either counter.
C4_SaveAtomicity ==
    \A i \in Reqs :
        /\ (pc[i] \in {"saveRespond", "saveUnlock"} /\ hist[i].moneyAdds = 1) =>
              /\ money = Add64(hist[i].money0, Neg64(reqBodyInt[i]))
              /\ bank = Add64(hist[i].bank0, reqBodyInt[i])
              /\ hist[i].bankAdds = 1
        /\ pc[i] = "saveCredit" =>
              /\ money = Add64(hist[i].money0, Neg64(reqBodyInt[i]))
              /\ bank = hist[i].bank0
              /\ \A j \in Reqs \ {i} : pc[j] \notin LedgerPcs

\* A save of 600 has made both updates, 1000 and 0 now 400 and 600, while
\* another request, already parsed, has been waiting for the mutex.
C4_Witness ==
    \E i, j \in Reqs :
        /\ i # j
        /\ pc[i] = "saveRespond" /\ reqBodyInt[i] = I64(600)
        /\ hist[i].money0 = I64(1000) /\ hist[i].bank0 = I64(0)
        /\ money = I64(400) /\ bank = I64(600)
        /\ pc[j] \in {"payLock", "saveLock"}

---------------------------------------------------------------------------
(* C5 *)

\* C5 (guard correctness): a request takes the success branch exactly when the
\* balance it loaded covers its amount, and the balance it then updates is
\* still the one it loaded; its response reports success exactly then, with
\* the update applied once (and for a save the credit too), and otherwise is
\* "low balance" (pay) or "low balance for bank transfer" (save) with no
\* update.
C5_GuardCorrect ==
    \A i \in Reqs :
        /\ pc[i] \in {"payDebit", "saveDebit"} =>
              Geq64(seen[i], reqBodyInt[i]) /\ money = seen[i]
        /\ pc[i] \in {"payLow", "saveLow"} =>
              ~Geq64(seen[i], reqBodyInt[i]) /\ money = seen[i]
        /\ pc[i] \in {"payRespond", "saveCredit", "saveRespond"} =>
              money = Add64(seen[i], Neg64(reqBodyInt[i]))
        /\ (Responded(i) /\ Parsed(i)) =>
              /\ reqBodyInt[i] = Amount(i)
              /\ IsSuccess(i) <=> Geq64(seen[i], reqBodyInt[i])
              /\ IsSuccess(i) =>
                    /\ hist[i].moneyAdds = 1
                    /\ hist[i].bankAdds = IF inp[i].kind = "save" THEN 1 ELSE 0
              /\ ~IsSuccess(i) =>
                    /\ sink[i].body = IF inp[i].kind = "pay" THEN MsgLow ELSE MsgLowSave
                    /\ hist[i].moneyAdds = 0 /\ hist[i].bankAdds = 0

\* Two requests of 600 against a balance of 1000 have both responded: the one
\* that checked first succeeded, the other found 400 and was refused.
C5_Witness ==
    \E i, j \in Reqs :
        /\ i # j
        /\ pc[i] = "done" /\ pc[j] = "done"
        /\ inp[i].body = Body600 /\ inp[j].body = Body600
        /\ IsSuccess(i) /\ seen[i] = I64(1000)
        /\ ~IsSuccess(j) /\ seen[j] = I64(400)

---------------------------------------------------------------------------
(* C6 *)

\* C6 (rejection leaves the ledger unchanged): a request whose response is
\* "low balance", "low balance for bank transfer" or "invalid amount" has made
\* no Add on either counter, and one refused under the mutex still finds both
\* counters as they were when it took the mutex.
C6_RejectionNoWrite ==
    \A i \in Reqs :
        (Responded(i) /\ (IsLowBalance(i) \/ sink[i].body = MsgInvalid)) =>
            /\ hist[i].moneyAdds = 0 /\ hist[i].bankAdds = 0
            /\ pc[i] \in {"payUnlock", "saveUnlock"} =>
                  money = hist[i].money0 /\ bank = hist[i].bank0

\* One request has been refused for its body, and another, a save, for its
\* amount and still holds the mutex; the balance is the initial one.
C6_Witness ==
    \E i, j \in Reqs :
        /\ i # j
        /\ pc[i] = "done" /\ sink[i].body = MsgInvalid
        /\ pc[j] = "saveUnlock" /\ sink[j].body = MsgLowSave
        /\ money = I64(InitialBalance)

---------------------------------------------------------------------------
(* C7 *)

\* C7 (negative amounts are rejected): a request whose body parses to a
\* negative integer is answered "invalid amount" and makes no Add on either
\* counter.  The code refutes it: it has no test of the sign, the check
\* balance >= amount passes, and the debit raises the balance.
C7_NegativeRejected ==
    \A i \in Reqs :
        (Responded(i) /\ Parsed(i) /\ IsNeg64(Amount(i))) =>
            /\ sink[i].body = MsgInvalid
            /\ hist[i].moneyAdds = 0 /\ hist[i].bankAdds = 0
            /\ money = I64(InitialBalance) /\ bank = I64(0)

---------------------------------------------------------------------------
(* C8 *)

\* The positive amounts among the bodies sent concurrently.
PositiveAmounts == {150, 600, 1500}

\* C8 (concurrency bound): when all the requests are payments of one positive
\* amount a, sent concurrently against the initial balance B, then once all
\* have completed the balance is B - a*k for k the number of success
\* responses, k <= B/a, and every response is a success or "low balance".
C8_ConcurrencyBound ==
    \A a \in PositiveAmounts :
        (\A i \in Reqs :
            /\ pc[i] = "done" /\ inp[i].kind = "pay"
            /\ inp[i].readErr = ReadOK /\ inp[i].body = Itoa(I64(a)))
        =>
        LET k == Cardinality({i \in Reqs : IsSuccess(i)})
        IN  /\ money = I64(InitialBalance - a * k)
            /\ k <= InitialBalance \div a
            /\ \A i \in Reqs : IsSuccess(i) \/ sink[i].body = MsgLow

\* All the requests were payments of 600, all have completed, and not all of
\* them succeeded.
C8_Witness ==
    /\ \A i \in Reqs : pc[i] = "done" /\ inp[i].kind = "pay" /\ inp[i].body = Body600
    /\ \E i \in Reqs : IsSuccess(i)
    /\ \E i \in Reqs : sink[i].body = MsgLow
    /\ money = I64(400)

---------------------------------------------------------------------------
(* C9 *)

\* C9 (mutual exclusion): at most one request is between mtx.Lock() and
\* mtx.Unlock(), the mutex is locked exactly while one is, and every load and
\* add of a counter is made from there.
C9_MutualExclusion ==
    /\ Cardinality({i \in Reqs : pc[i] \in CriticalPcs}) <= 1
    /\ mtx = (\E i \in Reqs : pc[i] \in CriticalPcs)
    /\ \A i \in Reqs : pc[i] \in LedgerPcs => pc[i] \in CriticalPcs /\ mtx = TRUE

\* A payment is about to debit while a save, parsed, waits for the mutex.
C9_Witness ==
    \E i, j \in Reqs :
        /\ i # j
        /\ pc[i] = "payDebit"
        /\ pc[j] = "saveLock"
        /\ mtx = TRUE

---------------------------------------------------------------------------
(* C10 *)

\* Whitespace, as strings.TrimSpace knows it, among the header values.
Whitespace == {" ", "\t", "\n", "\r"}

WhitespaceOnly(h) == \A k \in 1..Len(h) : h[k] \in Whitespace

\* C10 (correlation id resolution): the inbound X-Request-ID is reused
\* verbatim exactly when it is non-empty and not whitespace-only; an absent,
\* empty or whitespace-only value is replaced by a generated identifier.  The
\* code refutes it: it generates only for "" and for one single space, and
\* reuses two spaces, or a tab, verbatim.
C10_ResolutionRule ==
    \A i \in Reqs :
        pc[i] # "idle" =>
            /\ WhitespaceOnly(inp[i].hdr) =>
                  /\ GetRequestID(ctx[i]) = generateRequestID(inp[i].rand)
                  /\ GetRequestID(ctx[i]) # inp[i].hdr
            /\ ~WhitespaceOnly(inp[i].hdr) => GetRequestID(ctx[i]) = inp[i].hdr

---------------------------------------------------------------------------
(* C11 *)

\* C11 (correlation id consistency): from the moment the correlation stage
\* has passed a request on, the response header X-Request-ID is set and not
\* empty, also when the random source failed, and equals the identifier the
\* handlers find in the request's context; every line the request logs, the
\* start and end lines included, carries that identifier.
C11_IdConsistent ==
    \A i \in Reqs :
        pc[i] # "idle" =>
            /\ respHeader[i] # <<>>
            /\ respHeader[i] = GetRequestID(ctx[i])
            /\ \A k \in 1..Len(logs[i]) : logs[i][k].id = respHeader[i]

\* A request without the header, served while the random source fails, has
\* completed: its header and its start and end lines carry the fallback id.
C11_Witness ==
    /\ pc[1] = "done"
    /\ inp[1].hdr = HdrNone /\ inp[1].rand = RandFail
    /\ respHeader[1] = FallbackID
    /\ Len(logs[1]) >= 2
    /\ logs[1][1].ev = "Start" /\ logs[1][Len(logs[1])].ev = "End"

---------------------------------------------------------------------------
(* C12 *)

\* The bodies that are no base-10 integer of the int range: a number one
\* above the greatest, a text, the empty body.
InvalidBodies == {BodyOver, BodyText, BodyEmpty}

\* C12 (invalid input is rejected before the ledger is touched): a pay or
\* save request whose body, read in full, is no base-10 integer in range is
\* never waiting for the mutex nor holding it, so never at a load or an add of
\* a counter; it makes no Add, the counters and the mutex stay as they were,
\* and once its handler has returned its response is "invalid amount".
C12_InvalidBeforeLedger ==
    \A i \in Reqs :
        (/\ inp[i].kind \in {"pay", "save"}
         /\ inp[i].readErr = ReadOK
         /\ inp[i].body \in InvalidBodies)
        =>
            /\ pc[i] \notin ({"payLock", "saveLock"} \cup CriticalPcs)
            /\ hist[i].moneyAdds = 0 /\ hist[i].bankAdds = 0
            /\ seen[i] = I64(0)
            /\ money = I64(InitialBalance) /\ bank = I64(0) /\ mtx = FALSE
            /\ pc[i] \in {"logEnd", "done"} => sink[i].body = MsgInvalid

\* A save with the empty body has completed, answered "invalid amount".
C12_Witness ==
    /\ pc[1] = "done"
    /\ inp[1].kind = "save" /\ inp[1].body = BodyEmpty /\ inp[1].readErr = ReadOK
    /\ sink[1].body = MsgInvalid
    /\ money = I64(InitialBalance) /\ bank = I64(0)

---------------------------------------------------------------------------
(* C13 *)

\* C13 (always HTTP 200): a pay or save request never calls WriteHeader, so
\* no status but 200 is ever recorded or sent; once its handler has written
\* the response, whatever the outcome (success, insufficient funds, invalid
\* amount, body-read failure), the status line was sent once, with 200, and
\* the end line of the instrumentation stage reports 200.
C13_AlwaysOK ==
    \A i \in Reqs :
        inp[i].kind \in {"pay", "save"} =>
            /\ sink[i].headerCalls = 0
            /\ rw[i] \in {0, 200}
            /\ sink[i].status \in {0, 200}
            /\ Responded(i) =>
                  /\ sink[i].status = 200 /\ sink[i].headerWrites = 1
                  /\ rw[i] = 200
                  /\ sink[i].body # <<>>
            /\ pc[i] = "done" =>
                  /\ logs[i][Len(logs[i])].ev = "End"
                  /\ logs[i][Len(logs[i])].status = 200

\* A request whose body could not be read has completed with status 200 and
\* the text of the error as its body.
C13_Witness ==
    /\ pc[1] = "done"
    /\ inp[1].kind = "save" /\ inp[1].readErr = ReadFail
    /\ sink[1].body = MsgReadErr(ReadFail)
    /\ sink[1].status = 200 /\ rw[1] = 200

---------------------------------------------------------------------------
(* C14 *)

\* C14 (responses reflect the request's own post-operation state): when a
\* pay or save request has just written a successful response, still holding
\* the mutex, the body is the rendering of the two counters as they are, the
\* balance being the balance the request loaded for its check less its amount
\* and the bank the bank as the request found it, plus the amount for a save
\* (int64 arithmetic, as the counters compute it); the success log line
\* carries the same balance.  Whatever the other requests did before or are
\* about to do, none of it is in these values or missing from them.
C14_OwnPostState ==
    \A i \in Reqs :
        pc[i] \in {"payUnlock", "saveUnlock"} /\ IsSuccess(i) =>
            LET a    == reqBodyInt[i]
                bal  == Add64(seen[i], Neg64(a))
                bnk  == IF inp[i].kind = "save"
                        THEN Add64(hist[i].bank0, a) ELSE hist[i].bank0
                line == logs[i][Len(logs[i])]
            IN  /\ seen[i] = hist[i].money0
                /\ money = bal /\ bank = bnk
                /\ sink[i].body = Sprintf(Itoa(bal), Itoa(bnk))
                /\ line.ev \in {"Payment successful", "Transfer successful"}
                /\ line.balance = bal

\* A pay of 600 has just answered, after a save of 150 by the other request
\* that has terminated: the pay's response shows 250 and 150, the save's
\* response 850 and 150.
C14_Witness ==
    /\ pc[1] = "done" /\ pc[2] = "payUnlock"
    /\ IsSuccess(1) /\ IsSuccess(2)
    /\ inp[1].kind = "save" /\ inp[2].kind = "pay"
    /\ inp[1].body = Body150 /\ inp[2].body = Body600
    /\ hist[2].money0 = I64(850) /\ hist[2].bank0 = I64(150)
    /\ money = I64(250)
    /\ sink[1].body = Sprintf(Itoa(I64(850)), Itoa(I64(150)))
    /\ sink[2].body = Sprintf(Itoa(I64(250)), Itoa(I64(150)))

---------------------------------------------------------------------------
(* C15 *)

\* Where a request is once its handler has made the check of the balance.
PostCheckPcs ==
    {"payDebit", "payRespond", "payLow", "payUnlock",
     "saveDebit", "saveCredit", "saveRespond", "saveLow", "saveUnlock",
     "logEnd", "done"}

\* C15 (zero amount is a successful no-op): a pay or save request of amount
\* 0 that found a balance >= 0 at its check takes the success branch; while
\* it holds the mutex both counters keep the values they had when it took
\* the mutex, its updates included; and its response is the success message
\* with exactly those values.
C15_ZeroNoOp ==
    \A i \in Reqs :
        (/\ inp[i].kind \in {"pay", "save"}
         /\ pc[i] \in PostCheckPcs
         /\ reqBodyInt[i] = I64(0)
         /\ ~IsNeg64(seen[i])
         /\ Parsed(i) /\ Amount(i) = I64(0))
        =>
            /\ pc[i] \notin {"payLow", "saveLow"}
            /\ pc[i] \in CriticalPcs =>
                  money = hist[i].money0 /\ bank = hist[i].bank0
            /\ Responded(i) =>
                  /\ IsSuccess(i)
                  /\ hist[i].moneyAdds = 1
                  /\ hist[i].bankAdds = (IF inp[i].kind = "save" THEN 1 ELSE 0)
                  /\ sink[i].body =
                        Sprintf(Itoa(hist[i].money0), Itoa(hist[i].bank0))

\* A pay of 0 has answered, still holding the mutex, after a save of 150 by
\* the other request: the counters are those the save left.
C15_Witness ==
    /\ pc[1] = "payUnlock" /\ inp[1].kind = "pay" /\ inp[1].body = BodyZero
    /\ pc[2] = "done" /\ inp[2].kind = "save" /\ inp[2].body = Body150
    /\ hist[1].moneyAdds = 1
    /\ money = I64(850) /\ bank = I64(150)
    /\ sink[1].body = Sprintf(Itoa(I64(850)), Itoa(I64(150)))

---------------------------------------------------------------------------
(* C16 *)

\* The WriteHeader calls among the calls request i's handler has made.
HeaderCalls(i) == SelectSeq(hist[i].calls, LAMBDA c : c.op = "WriteHeader")

\* C16 (status recorder): for any sequence of WriteHeader and Write calls of
\* the wrapped handler, the recorded status is 200 if WriteHeader was never
\* called and otherwise the code set; the recorder forwards the status line
\* to the sink at most once, and the sink has sent it once as soon as the
\* handler has called anything; and the recorded status is the status the
\* sink sent.  The code refutes it: WriteHeader records and forwards every
\* call, while the sink sends the status line once, on the first call or the
\* first write; after Write, WriteHeader(404) the recorder holds 404 and the
\* sink has sent 200.
C16_StatusRecorder ==
    \A i \in Reqs :
        (inp[i].kind = "test" /\ pc[i] \in {"test", "logEnd", "done"}) =>
            LET set == HeaderCalls(i)
            IN  /\ rw[i] = (IF set = <<>> THEN 200 ELSE set[Len(set)].code)
                /\ sink[i].headerCalls <= 1
                /\ hist[i].calls # <<>> => sink[i].headerWrites = 1
                /\ sink[i].status # 0 => rw[i] = sink[i].status

---------------------------------------------------------------------------
(* C17 *)

\* The positions in request i's log of the lines of event ev.
EventsAt(i, ev) == {k \in 1..Len(logs[i]) : logs[i][k].ev = ev}

\* C17 (instrumentation ordering): until the instrumentation stage has
\* written its start line a request has logged nothing and its handler has
\* done nothing; from then on the log holds exactly one start line, and it is
\* the first line; it holds no end line until the handler has returned and
\* the stage has finished, and then exactly one, the last line, with the
\* method, path and correlation id of the start line and the status the
\* recorder holds, which is the status it held when the handler returned.
C17_Ordering ==
    \A i \in Reqs :
        LET L == logs[i]
        IN  /\ pc[i] \in {"idle", "logging"} =>
                  /\ L = <<>>
                  /\ sink[i].body = <<>> /\ hist[i].calls = <<>>
                  /\ sink[i].status = 0
            /\ pc[i] \notin {"idle", "logging"} =>
                  /\ EventsAt(i, "Start") = {1}
                  /\ L[1].method = inp[i].method
                  /\ L[1].path = Path(inp[i])
            /\ pc[i] # "done" => EventsAt(i, "End") = {}
            /\ pc[i] = "done" =>
                  /\ EventsAt(i, "End") = {Len(L)}
                  /\ Len(L) >= 2
                  /\ L[Len(L)].method = L[1].method
                  /\ L[Len(L)].path = L[1].path
                  /\ L[Len(L)].id = L[1].id
                  /\ L[Len(L)].status = rw[i]
                  /\ rw[i] = (IF HeaderCalls(i) = <<>> THEN 200
                              ELSE HeaderCalls(i)[Len(HeaderCalls(i))].code)

\* A request whose handler wrote a body and then set 404 has completed: its
\* log is the start line and the end line, the end line with status 404.
C17_Witness ==
    /\ pc[1] = "done" /\ inp[1].kind = "test"
    /\ hist[1].calls = <<[op |-> "Write"], [op |-> "WriteHeader", code |-> 404]>>
    /\ Len(logs[1]) = 2
    /\ logs[1][1].ev = "Start" /\ logs[1][2].ev = "End"
    /\ logs[1][2].status = 404

---------------------------------------------------------------------------
(* C18 *)

\* Request i has applied all of the counter updates of its route, or none.
AllOrNone(i) ==
    IF inp[i].kind = "save"
    THEN <<hist[i].moneyAdds, hist[i].bankAdds>> \in {<<0, 0>>, <<1, 1>>}
    ELSE <<hist[i].moneyAdds, hist[i].bankAdds>> \in {<<0, 0>>, <<1, 0>>}

\* Every request is outside its critical section with all or none of its
\* updates applied, the mutex is held exactly while some request is inside,
\* and while a request is on its way some request can take a step.
CriticalSectionsComplete ==
    /\ \A i \in Reqs : pc[i] \notin CriticalPcs => AllOrNone(i)
    /\ \A i \in Reqs :
          (Responded(i) /\ Parsed(i)) =>
              hist[i].moneyAdds = (IF IsSuccess(i) THEN 1 ELSE 0)
    /\ mtx = (\E i \in Reqs : pc[i] \in CriticalPcs)
    /\ (\E i \in Reqs : pc[i] \notin {"idle", "done"}) =>
          \E i \in Reqs : ENABLED Proceed(i)

\* Every request that has arrived has written its response and terminated.
AllTerminated ==
    \A i \in Reqs : pc[i] # "idle" => (pc[i] = "done" /\ sink[i].body # <<>>)

\* C18 (critical sections run to completion, no deadlock): in every state
\* the critical sections are complete as above, on the success path and on
\* the insufficient-funds path alike; and under fair scheduling every request
\* that has arrived eventually has written its response, has released the
\* mutex if it took it, and has terminated.  A request arrives once and,
\* terminated, stays so: that every request that arrives terminates is then
\* the same as that, again and again, all that have arrived have terminated.
C18_Completes ==
    /\ []CriticalSectionsComplete
    /\ []<>AllTerminated

\* Two pays of 600 have both terminated, the first paid and the second
\* refused for want of funds, and the mutex is free.
C18_Witness ==
    /\ pc[1] = "done" /\ pc[2] = "done"
    /\ inp[1].kind = "pay" /\ inp[2].kind = "pay"
    /\ IsSuccess(1) /\ sink[2].body = MsgLow
    /\ hist[1].moneyAdds = 1 /\ hist[2].moneyAdds = 0
    /\ money = I64(400)
    /\ mtx = FALSE

---------------------------------------------------------------------------
(* C19 *)

\* payHandler or saveHandler run alone, start to end, on request r with the
\* counters at st: the counters it leaves and the body it writes.
Serve(st, r) ==
    LET a == Atoi(r.body)
    IN  IF r.readErr # ReadOK THEN
            [money |-> st.money, bank |-> st.bank, body |-> MsgReadErr(r.readErr)]
        ELSE IF ~a.ok THEN
            [money |-> st.money, bank |-> st.bank, body |-> MsgInvalid]
        ELSE IF Geq64(st.money, a.val) THEN
            LET m == Add64(st.money, Neg64(a.val))
                b == IF r.kind = "save" THEN Add64(st.bank, a.val) ELSE st.bank
            IN  [money |-> m, bank |-> b, body |-> Sprintf(Itoa(m), Itoa(b))]
        ELSE
            [money |-> st.money, bank |-> st.bank,
             body |-> IF r.kind = "save" THEN MsgLowSave ELSE MsgLow]

\* The requests of order, served one at a time from the k-th on, with the
\* counters at st: the final counters and each request's body.
RECURSIVE ServeInOrder(_, _, _, _)
ServeInOrder(order, k, st, bodies) ==
    IF k > Len(order) THEN
        [money |-> st.money, bank |-> st.bank, bodies |-> bodies]
    ELSE
        LET out == Serve(st, inp[order[k]])
        IN  ServeInOrder(order, k + 1, out,
                [bodies EXCEPT ![order[k]] = out.body])

\* The orders in which the requests of S can be served one at a time.
Orders(S) ==
    {o \in [1..Cardinality(S) -> S] : \A j, k \in DOMAIN o : o[j] = o[k] => j = k}

\* Serving the requests one at a time in this order, from the server's first
\* state, gives every request the response it got and leaves the counters as
\* they are.
SameOutcome(order) ==
    LET run == ServeInOrder(order, 1,
                   [money |-> I64(InitialBalance), bank |-> I64(0)],
                   [i \in Reqs |-> <<>>])
    IN  /\ run.money = money /\ run.bank = bank
        /\ \A k \in DOMAIN order : run.bodies[order[k]] = sink[order[k]].body

\* C19 (serializability): whenever every request that has arrived has
\* terminated, there is an order of those requests in which, served one at a
\* time, each gets the response it got in the concurrent run and the final
\* balance and bank are the same; each request made each of its updates at
\* most once.
C19_Serializable ==
    (\A i \in Reqs : pc[i] \in {"idle", "done"}) =>
        /\ \E order \in Orders({i \in Reqs : pc[i] = "done"}) : SameOutcome(order)
        /\ \A i \in Reqs : hist[i].moneyAdds <= 1 /\ hist[i].bankAdds <= 1

\* Two requests of 600 have run concurrently and terminated, the save paid
\* and the pay refused: the order save, pay gives this outcome and the order
\* pay, save does not.
C19_Witness ==
    /\ pc[1] = "done" /\ pc[2] = "done"
    /\ inp[1].kind = "pay" /\ inp[2].kind = "save"
    /\ inp[1].body = Body600 /\ inp[2].body = Body600
    /\ sink[1].body = MsgLow /\ IsSuccess(2)
    /\ SameOutcome(<<2, 1>>)
    /\ ~SameOutcome(<<1, 2>>)

---------------------------------------------------------------------------
(* C20 *)

\* The pay requests that have succeeded so far.
PaidSoFar ==
    {i \in Reqs : inp[i].kind = "pay" /\ Responded(i) /\ IsSuccess(i)}

\* The sum, as an int64, of the amounts of the requests of S.
RECURSIVE SumAmounts(_)
SumAmounts(S) ==
    IF S = {} THEN I64(0)
    ELSE LET i == CHOOSE j \in S : TRUE
         IN  Add64(reqBodyInt[i], SumAmounts(S \ {i}))

\* C20 (global conservation): in every state in which no request holds the
\* mutex, balance + bank is the initial balance + bank (1000 + 0) less the
\* sum of the amounts of the pay requests that have succeeded so far, sums
\* and differences taken as the int64 counters take them; the amounts of save
\* requests, succeeded or not, do not enter.
C20_Conservation ==
    mtx = FALSE =>
        Add64(money, bank) =
            Add64(Add64(I64(InitialBalance), I64(0)), Neg64(SumAmounts(PaidSoFar)))

\* A save of 600 and a pay of 150 have both succeeded and the mutex is free:
\* balance 250 and bank 600 make 850, the 1000 less the 150 paid.
C20_Witness ==
    /\ mtx = FALSE
    /\ pc[1] = "done" /\ pc[2] = "done"
    /\ inp[1].kind = "save" /\ inp[1].body = Body600 /\ IsSuccess(1)
    /\ inp[2].kind = "pay" /\ inp[2].body = Body150 /\ IsSuccess(2)
    /\ money = I64(250) /\ bank = I64(600)
    /\ PaidSoFar = {2}

=============================================================================
